---- MODULE Spec2Model ----
(***************************************************************************)
(* Model of mui_tiles.py: the slippy-map projection (deg2num), the tile    *)
(* enumerators (tiles_around, tiles_for_bbox) and the geocoder candidate   *)
(* resolver (score_place_result, pick_best_place).                         *)
(*                                                                         *)
(* The functions are pure.  Each specification draws the arguments of one  *)
(* call in Init (pc = "call") and has one action per function which        *)
(* computes the returned value as the code computes it (pc = "done").      *)
(*                                                                         *)
(* download_tile, download_convert_tiles, the wizard command and           *)
(* convert_zoom.py talk to the network, the converter and the user; they   *)
(* are modelled as processes of several steps, one action per step, with   *)
(* the answers of the outside world chosen in the action.                  *)
(***************************************************************************)
EXTENDS Integers, Sequences, FiniteSets

\* pc:   position of the running function ("call", ..., "done")
\* op:   the function called
\* args: its arguments
\* ret:  the value it returned (None before it returns)
\* loc:  its local variables, for the functions that run in several steps
\* env:  what the function finds and leaves outside itself: files on disk,
\*       requests sent, waits
VARIABLES pc, op, args, ret, loc, env

vars == <<pc, op, args, ret, loc, env>>

None == [none |-> TRUE]

(***************************************************************************)
(* Bounds of the model.                                                    *)
(***************************************************************************)
\* largest radius passed to tiles_around
MaxRadius == 2
\* largest number of tiles of a bounding box passed to tiles_for_bbox
MaxTiles == 16
\* longest candidate list handed to pick_best_place
MaxResults == 3
\* longest display name (in words) handed to score_place_result
MaxDisplayLen == 4
\* longest boundingbox list handed to bbox_from_nominatim
MaxBBoxLen == 5
\* longest tile list handed to download_convert_tiles
MaxBatch == 4
\* largest number of source files found by convert_zoom
MaxFiles == 3

(***************************************************************************)
(* Program constants.                                                      *)
(***************************************************************************)
\* run(): z = typer.Option(..., min=0, max=19)
MaxZoom == 19
\* download_tile(..., retries: int = 3)
Retries == 3

RECURSIVE Pow2(_)
Pow2(k) == IF k = 0 THEN 1 ELSE 2 * Pow2(k - 1)

\* Python int(): truncation toward zero of a / b, for b > 0
TruncDiv(a, b) == IF a >= 0 THEN a \div b ELSE -((-a) \div b)

(***************************************************************************)
(* deg2num.  Latitudes and longitudes are in millidegrees.  The model      *)
(* covers the inputs listed in Lats and Lons; for each of them the table   *)
(* holds the value the code computes before the multiplication by n,       *)
(*   (lon + 180) / 360                       and                           *)
(*   (1 - asinh(tan(radians(lat))) / pi) / 2,                              *)
(* truncated toward zero to 24 binary digits.  int(f * 2^z) is then the    *)
(* table value divided by 2^(24 - z), truncated toward zero; the           *)
(* results equal those of the floating-point code for every listed input   *)
(* and every zoom 0..20.                                                   *)
(***************************************************************************)
Lats == {-33869, 0, 25000, 25001, 26000, 86000}
Lons == {-181000, -180000, -80000, -79999, -79000, 151209}

lon_frac(lon_deg) ==
    CASE lon_deg = -181000 -> -46603
      [] lon_deg = -180000 -> 0
      [] lon_deg = -80000  -> 4660337
      [] lon_deg = -79999  -> 4660384
      [] lon_deg = -79000  -> 4706941
      [] lon_deg = 151209  -> 15435458

lat_frac(lat_deg) ==
    CASE lat_deg = -33869 -> 10067888
      [] lat_deg = 0      -> 8388608
      [] lat_deg = 25000  -> 7184691
      [] lat_deg = 25001  -> 7184639
      [] lat_deg = 26000  -> 7133056
      [] lat_deg = 86000  -> -568963

deg2num(lat_deg, lon_deg, zoom) ==
    LET xtile == TruncDiv(lon_frac(lon_deg), Pow2(24 - zoom))
        ytile == TruncDiv(lat_frac(lat_deg), Pow2(24 - zoom))
    IN  <<xtile, ytile>>

Tile(z, x, y) == [z |-> z, x |-> x, y |-> y]

\* Python range(a, b) as the sequence a, a+1, ..., b-1
range(a, b) == [i \in 1..(IF b > a THEN b - a ELSE 0) |-> a + i - 1]

\* Python sorted() of a pair
sorted2(a, b) == IF a <= b THEN <<a, b>> ELSE <<b, a>>

(***************************************************************************)
(* tiles_around: for dx in range(-radius, radius+1):                       *)
(*                 for dy in range(-radius, radius+1): out.append(...)     *)
(***************************************************************************)
RECURSIVE around_dy(_, _, _, _, _)
around_dy(out, z, x, cy, dys) ==
    IF dys = <<>> THEN out
    ELSE around_dy(Append(out, Tile(z, x, cy + Head(dys))), z, x, cy, Tail(dys))

RECURSIVE around_dx(_, _, _, _, _, _)
around_dx(out, z, cx, cy, dxs, radius) ==
    IF dxs = <<>> THEN out
    ELSE around_dx(around_dy(out, z, cx + Head(dxs), cy, range(-radius, radius + 1)),
                   z, cx, cy, Tail(dxs), radius)

\* mutant: the loops stop one short, range(-radius, radius)
tiles_around_short(lat, lon, z, radius) ==
    LET c == deg2num(lat, lon, z)
    IN  around_dx(<<>>, z, c[1], c[2], range(-radius, radius), radius)

tiles_around(lat, lon, z, radius) ==
    LET c == deg2num(lat, lon, z)
    IN  around_dx(<<>>, z, c[1], c[2], range(-radius, radius + 1), radius)

(***************************************************************************)
(* tiles_for_bbox                                                          *)
(***************************************************************************)
RECURSIVE bbox_y(_, _, _, _)
bbox_y(out, z, x, ys) ==
    IF ys = <<>> THEN out
    ELSE bbox_y(Append(out, Tile(z, x, Head(ys))), z, x, Tail(ys))

RECURSIVE bbox_x(_, _, _, _, _)
bbox_x(out, z, xs, ymin, ymax) ==
    IF xs = <<>> THEN out
    ELSE bbox_x(bbox_y(out, z, Head(xs), range(ymin, ymax + 1)), z, Tail(xs), ymin, ymax)

\* mutant: the projected corners are used as they come, without sorted()
tiles_for_bbox_unsorted(z, west, south, east, north) ==
    LET c1 == deg2num(north, west, z)
        c2 == deg2num(south, east, z)
    IN  bbox_x(<<>>, z, range(c1[1], c2[1] + 1), c1[2], c2[2])

\* mutant: the y axis is the outer loop (y-major order)
tiles_for_bbox_ymajor(z, west, south, east, north) ==
    LET c1 == deg2num(north, west, z)
        c2 == deg2num(south, east, z)
        xs == sorted2(c1[1], c2[1])
        ys == sorted2(c1[2], c2[2])
        n  == xs[2] - xs[1] + 1
        m  == ys[2] - ys[1] + 1
    IN  [i \in 1..(n * m) |-> Tile(z, xs[1] + ((i - 1) % n), ys[1] + ((i - 1) \div n))]

tiles_for_bbox(z, west, south, east, north) ==
    LET c1 == deg2num(north, west, z)
        c2 == deg2num(south, east, z)
        xs == sorted2(c1[1], c2[1])
        ys == sorted2(c1[2], c2[2])
    IN  bbox_x(<<>>, z, range(xs[1], xs[2] + 1), ys[1], ys[2])

(***************************************************************************)
(* Specification of the tile enumerators.                                  *)
(***************************************************************************)
AroundArgs ==
    [lat : Lats, lon : Lons, z : 0..MaxZoom, radius : 0..MaxRadius]

\* number of tiles of the rectangle spanned by the two projected corners
BBoxCount(a) ==
    LET c1 == deg2num(a.north, a.west, a.z)
        c2 == deg2num(a.south, a.east, a.z)
        dx == IF c1[1] <= c2[1] THEN c2[1] - c1[1] ELSE c1[1] - c2[1]
        dy == IF c1[2] <= c2[2] THEN c2[2] - c1[2] ELSE c1[2] - c2[2]
    IN  (dx + 1) * (dy + 1)

\* dx and dy each at most MaxTiles, so that the product stays small
BBoxSmall(a) ==
    LET c1 == deg2num(a.north, a.west, a.z)
        c2 == deg2num(a.south, a.east, a.z)
    IN  /\ c1[1] - c2[1] \in (-MaxTiles)..MaxTiles
        /\ c1[2] - c2[2] \in (-MaxTiles)..MaxTiles
        /\ BBoxCount(a) <= MaxTiles

BBoxArgs ==
    {a \in [z : 0..MaxZoom, west : Lons, south : Lats, east : Lons, north : Lats] :
        BBoxSmall(a)}

InitTiles ==
    /\ pc = "call"
    /\ \/ op = "tiles_around" /\ args \in AroundArgs
       \/ op = "tiles_for_bbox" /\ args \in BBoxArgs
    /\ ret = None
    /\ loc = None
    /\ env = None

TilesAround ==
    /\ pc = "call" /\ op = "tiles_around"
    /\ ret' = tiles_around(args.lat, args.lon, args.z, args.radius)
    /\ pc' = "done"
    /\ UNCHANGED <<op, args, loc, env>>

TilesForBBox ==
    /\ pc = "call" /\ op = "tiles_for_bbox"
    /\ ret' = tiles_for_bbox(args.z, args.west, args.south, args.east, args.north)
    /\ pc' = "done"
    /\ UNCHANGED <<op, args, loc, env>>

NextTiles == TilesAround \/ TilesForBBox

SpecTiles == InitTiles /\ [][NextTiles]_vars

\* the sequence s has no element twice
NoDup(s) == \A i, j \in DOMAIN s : i # j => s[i] # s[j]

SeqSet(s) == {s[i] : i \in DOMAIN s}

\* C1: tiles_around returns exactly (2r+1)^2 tiles, pairwise distinct, all
\* of zoom z, the tile of deg2num(lat, lon, z) among them; r = 0 returns
\* exactly that tile.
C1_AroundGrid ==
    (pc = "done" /\ op = "tiles_around") =>
        LET r == args.radius
            c == deg2num(args.lat, args.lon, args.z)
        IN  /\ Len(ret) = (2 * r + 1) * (2 * r + 1)
            /\ NoDup(ret)
            /\ \A i \in DOMAIN ret : ret[i].z = args.z
            /\ Tile(args.z, c[1], c[2]) \in SeqSet(ret)
            /\ (r = 0 => ret = <<Tile(args.z, c[1], c[2])>>)

C1_Witness ==
    /\ pc = "done" /\ op = "tiles_around"
    /\ args.radius = 2 /\ args.z = 19 /\ Len(ret) = 25

\* C2: tiles_for_bbox returns the same set of tiles when south and north,
\* west and east, or both pairs are passed swapped.
C2_SwapInvariant ==
    (pc = "done" /\ op = "tiles_for_bbox") =>
        LET a == args
        IN  /\ SeqSet(ret) = SeqSet(tiles_for_bbox(a.z, a.west, a.north, a.east, a.south))
            /\ SeqSet(ret) = SeqSet(tiles_for_bbox(a.z, a.east, a.south, a.west, a.north))
            /\ SeqSet(ret) = SeqSet(tiles_for_bbox(a.z, a.east, a.north, a.west, a.south))

\* a box passed with south above north and west right of east, covering
\* more than one tile on both axes
C2_Witness ==
    /\ pc = "done" /\ op = "tiles_for_bbox"
    /\ args.south > args.north /\ args.west > args.east
    /\ \E i, j \in DOMAIN ret : ret[i].x # ret[j].x /\ ret[i].y # ret[j].y

MinOf(a, b) == IF a < b THEN a ELSE b
MaxOf(a, b) == IF a < b THEN b ELSE a

\* C3: tiles_for_bbox returns a non-empty list, exactly the inclusive
\* rectangle between the two projected corners, each tile once, in
\* ascending x-major, y-minor order (degenerate boxes included).
C3_BBoxRectangle ==
    (pc = "done" /\ op = "tiles_for_bbox") =>
        LET c1 == deg2num(args.north, args.west, args.z)
            c2 == deg2num(args.south, args.east, args.z)
            rect == {Tile(args.z, x, y) :
                        x \in MinOf(c1[1], c2[1])..MaxOf(c1[1], c2[1]),
                        y \in MinOf(c1[2], c2[2])..MaxOf(c1[2], c2[2])}
        IN  /\ ret # <<>>
            /\ SeqSet(ret) = rect
            /\ Len(ret) = Cardinality(rect)
            /\ \A i, j \in DOMAIN ret :
                  i < j => \/ ret[i].x < ret[j].x
                           \/ ret[i].x = ret[j].x /\ ret[i].y < ret[j].y

\* the box of the specification's example, west=-80 south=25 east=-79
\* north=26 at zoom 10: 4 x 4 tiles
C3_Witness ==
    /\ pc = "done" /\ op = "tiles_for_bbox"
    /\ args = [z |-> 10, west |-> -80000, south |-> 25000, east |-> -79000, north |-> 26000]
    /\ Len(ret) = 16

\* a degenerate box (west = east, south = north) yields one tile
C3_WitnessDegenerate ==
    /\ pc = "done" /\ op = "tiles_for_bbox"
    /\ args.west = args.east /\ args.south = args.north
    /\ Len(ret) = 1

(***************************************************************************)
(* Strings.  A string is a sequence of symbols (words); Python's           *)
(* "a in b" on strings is the search of a as a contiguous run of b, and    *)
(* str.lower() maps every symbol to its lower-case form.  The fields       *)
(* addresstype, category and type, which the code only compares as a       *)
(* whole, are single symbols.  A missing key or None is the empty string   *)
(* (r.get(k) or "").                                                       *)
(***************************************************************************)
lower_sym(t) ==
    CASE t = "Florida" -> "florida"
      [] t = "Miami"   -> "miami"
      [] t = "Puerto"  -> "puerto"
      [] t = "Rico"    -> "rico"
      [] t = "USA"     -> "usa"
      [] t = "State"   -> "state"
      [] OTHER         -> t

lower(s) == [i \in DOMAIN s |-> lower_sym(s[i])]

\* Python: a in b
contains(b, a) ==
    \E k \in 0..(Len(b) - Len(a)) : \A i \in 1..Len(a) : b[k + i] = a[i]

\* the literal "puerto rico"
PUERTO_RICO == <<"puerto", "rico">>

(***************************************************************************)
(* score_place_result                                                      *)
(***************************************************************************)
addresstype_score(addresstype) ==
    IF addresstype \in {"state", "province", "region", "territory", "state_district"}
    THEN 25
    ELSE IF addresstype \in {"county", "city", "town", "village"}
         THEN -10
         ELSE 0

\* mutant: the Puerto Rico penalty is 20
puerto_rico_score_20(display) ==
    IF contains(display, PUERTO_RICO) THEN -20 ELSE 0

puerto_rico_score(display) ==
    IF contains(display, PUERTO_RICO) THEN -30 ELSE 0

\* mutant: the country bonus is 5
country_score_5(desired_country_l, display) ==
    IF contains(display, desired_country_l) THEN 5 ELSE 0

country_score(desired_country_l, display) ==
    IF contains(display, desired_country_l) THEN 10 ELSE 0

score_place_result(region_name, desired_country, r) ==
    LET display     == lower(r.display_name)
        name        == lower(r.name)
        addresstype == lower_sym(r.addresstype)
        category    == lower_sym(r.category)
        rtype       == lower_sym(r.type)
        region_l    == lower(region_name)
        desired_country_l == lower(desired_country)
    IN    (IF contains(display, region_l) \/ region_l = name THEN 20 ELSE 0)
        + (IF category = "boundary" /\ rtype = "administrative" THEN 20 ELSE 0)
        + addresstype_score(addresstype)
        + country_score(desired_country_l, display)
        + puerto_rico_score(display)

(***************************************************************************)
(* pick_best_place                                                         *)
(***************************************************************************)
preferred_types == {"state", "province", "region", "territory", "state_district"}

is_preferred(r) == lower_sym(r.addresstype) \in preferred_types

\* mutant: the filtered list replaces the results only when it has more
\* than one element
prefilter_many(results) ==
    LET filtered == SelectSeq(results, is_preferred)
    IN  IF Len(filtered) > 1 THEN filtered ELSE results

\* mutant: no pre-filter
prefilter_none(results) == results

\* results after "if filtered: results = filtered"
prefilter(results) ==
    LET filtered == SelectSeq(results, is_preferred)
    IN  IF filtered # <<>> THEN filtered ELSE results

\* scored.sort(key=lambda t: t[0], reverse=True): a stable sort, pairs of
\* equal score keep their order.  insert_desc puts the pair t behind every
\* pair of the sorted sequence s whose score is >= its own.
\* mutant: t goes before the pairs of equal score
RECURSIVE insert_desc_unstable(_, _)
insert_desc_unstable(s, t) ==
    IF s = <<>> THEN <<t>>
    ELSE IF Head(s)[1] > t[1] THEN <<Head(s)>> \o insert_desc_unstable(Tail(s), t)
         ELSE <<t>> \o s

RECURSIVE insert_desc(_, _)
insert_desc(s, t) ==
    IF s = <<>> THEN <<t>>
    ELSE IF Head(s)[1] >= t[1] THEN <<Head(s)>> \o insert_desc(Tail(s), t)
         ELSE <<t>> \o s

RECURSIVE sort_desc_from(_, _)
sort_desc_from(sorted, rest) ==
    IF rest = <<>> THEN sorted
    ELSE sort_desc_from(insert_desc(sorted, Head(rest)), Tail(rest))

sort_desc(scored) == sort_desc_from(<<>>, scored)

\* mutant: auto-pick on any gap >= 0
clearly_better_any(best_score, second_score) == best_score - second_score >= 0

\* mutant: auto-pick only on a gap > 10
clearly_better_strict(best_score, second_score) == best_score - second_score > 10

\* "if best_score - second_score >= 10"
clearly_better(best_score, second_score) == best_score - second_score >= 10

\* the result is [raised, place, needs_prompt]; raised is "ValueError" when
\* the function raises and then place carries no candidate
\* mutant: a one-element list is refused as well
no_results_short(results) == Len(results) <= 1

\* "if not results"
no_results(results) == results = <<>>

pick_best_place(region_name, country_name, results) ==
    IF no_results(results)
    THEN [raised |-> "ValueError", place |-> None, needs_prompt |-> FALSE]
    ELSE
      LET res == prefilter(results)
      IN  IF Len(res) = 1
          THEN [raised |-> "", place |-> res[1], needs_prompt |-> FALSE]
          ELSE
            LET scored == sort_desc([i \in DOMAIN res |->
                              <<score_place_result(region_name, country_name, res[i]), res[i]>>])
                best_score   == scored[1][1]
                best         == scored[1][2]
                second_score == IF Len(scored) > 1 THEN scored[2][1] ELSE -999
            IN  IF clearly_better(best_score, second_score)
                THEN [raised |-> "", place |-> best, needs_prompt |-> FALSE]
                ELSE [raised |-> "", place |-> best, needs_prompt |-> TRUE]

(***************************************************************************)
(* Specification of score_place_result: one call on one candidate.         *)
(***************************************************************************)
Candidate(display_name, name, addresstype, category, type) ==
    [display_name |-> display_name, name |-> name, addresstype |-> addresstype,
     category |-> category, type |-> type]

Words == {"Florida", "Puerto", "Rico", "USA"}

\* display names of at most MaxDisplayLen words
DisplayNames == UNION {[1..n -> Words] : n \in 0..MaxDisplayLen}

ScorePool ==
    {Candidate(d, nm, a, c, t) :
        d \in DisplayNames, nm \in {<<>>, <<"Florida">>},
        a \in {"state", "county", ""},
        c \in {"boundary", "place"}, t \in {"administrative", "city"}}

ScoreArgs ==
    [region_name : {<<"Florida">>, <<"Puerto", "Rico">>, <<"Rico">>},
     desired_country : {<<"USA">>, <<"Puerto", "Rico">>},
     r : ScorePool]

InitScore ==
    /\ pc = "call"
    /\ op = "score_place_result"
    /\ args \in ScoreArgs
    /\ ret = None
    /\ loc = None
    /\ env = None

ScorePlaceResult ==
    /\ pc = "call" /\ op = "score_place_result"
    /\ ret' = score_place_result(args.region_name, args.desired_country, args.r)
    /\ pc' = "done"
    /\ UNCHANGED <<op, args, loc, env>>

NextScore == ScorePlaceResult

SpecScore == InitScore /\ [][NextScore]_vars

(***************************************************************************)
(* Specification of pick_best_place: one call on a list of candidates as   *)
(* the geocoder returns them for the region "Florida" of the country       *)
(* "USA".                                                                  *)
(***************************************************************************)
PlacePool ==
    {Candidate(d, <<Head(d)>>, a, ct[1], ct[2]) :
        d \in {<<"Florida", "USA">>, <<"Florida", "Puerto", "Rico", "USA">>,
               <<"Florida">>, <<"Miami", "USA">>},
        a \in {"state", "county", ""},
        ct \in {<<"boundary", "administrative">>, <<"place", "city">>}}
    \cup {Candidate(<<>>, <<"Florida">>, "State", "boundary", "administrative")}

PlaceArgs ==
    [region_name : {<<"Florida">>},
     country_name : {<<"USA">>},
     results : UNION {[1..n -> PlacePool] : n \in 0..MaxResults}]

InitPlace ==
    /\ pc = "call"
    /\ op = "pick_best_place"
    /\ args \in PlaceArgs
    /\ ret = None
    /\ loc = None
    /\ env = None

PickBestPlace ==
    /\ pc = "call" /\ op = "pick_best_place"
    /\ ret' = pick_best_place(args.region_name, args.country_name, args.results)
    /\ pc' = "done"
    /\ UNCHANGED <<op, args, loc, env>>

NextPlace == PickBestPlace

SpecPlace == InitPlace /\ [][NextPlace]_vars

(***************************************************************************)
(* Vocabulary of the properties of the resolver, stated from the           *)
(* specification and independently of the operators above.                 *)
(***************************************************************************)
RegionLevelTypes == {"state", "province", "region", "territory", "state_district"}

IsRegionLevel(r) == lower_sym(r.addresstype) \in RegionLevelTypes

\* the candidates that remain after the region-level pre-filter
Remaining(results) ==
    IF \E i \in DOMAIN results : IsRegionLevel(results[i])
    THEN SelectSeq(results, IsRegionLevel)
    ELSE results

\* pick_best_place has returned a candidate
Picked == pc = "done" /\ op = "pick_best_place" /\ ret.raised = ""

ScoreOf(r) == score_place_result(args.region_name, args.country_name, r)

\* highest score of the sequence of candidates s
TopScore(s) == CHOOSE m \in {ScoreOf(s[i]) : i \in DOMAIN s} :
                   \A i \in DOMAIN s : ScoreOf(s[i]) <= m

\* second-highest score of s (equal to the highest when it occurs twice)
SecondScore(s) ==
    LET t == CHOOSE i \in DOMAIN s : ScoreOf(s[i]) = TopScore(s)
        others == {ScoreOf(s[i]) : i \in DOMAIN s \ {t}}
    IN  CHOOSE m \in others : \A v \in others : v <= m

\* C4 as stated: whenever two candidates of the list score identically,
\* pick_best_place returns needs_prompt = TRUE.
C4_Original ==
    Picked =>
        ((\E i, j \in DOMAIN args.results :
              i # j /\ ScoreOf(args.results[i]) = ScoreOf(args.results[j]))
         => ret.needs_prompt = TRUE)

\* C4 (amended): when two or more candidates remain after the pre-filter and
\* the highest score among them is reached by two of them, pick_best_place
\* returns needs_prompt = TRUE.
C4_TopTiePrompts ==
    Picked =>
        LET rem == Remaining(args.results)
        IN  (\E i, j \in DOMAIN rem :
                 /\ i # j
                 /\ ScoreOf(rem[i]) = TopScore(rem)
                 /\ ScoreOf(rem[j]) = TopScore(rem))
            => ret.needs_prompt = TRUE

\* two different candidates share the highest score
C4_Witness ==
    /\ Picked
    /\ LET rem == Remaining(args.results)
       IN  \E i, j \in DOMAIN rem :
               /\ rem[i] # rem[j]
               /\ ScoreOf(rem[i]) = TopScore(rem)
               /\ ScoreOf(rem[j]) = TopScore(rem)
    /\ ret.needs_prompt = TRUE

\* C5: when two or more candidates remain after the pre-filter,
\* needs_prompt = FALSE exactly when the highest score exceeds the
\* second-highest by at least 10.
C5_GapThreshold ==
    Picked =>
        LET rem == Remaining(args.results)
        IN  Len(rem) >= 2 =>
                (ret.needs_prompt = FALSE <=> TopScore(rem) - SecondScore(rem) >= 10)

\* a gap of exactly 10 is accepted
C5_Witness ==
    /\ Picked
    /\ LET rem == Remaining(args.results)
       IN  Len(rem) >= 2 /\ TopScore(rem) - SecondScore(rem) = 10
    /\ ret.needs_prompt = FALSE

\* a gap below 10 is escalated
C5_WitnessBelow ==
    /\ Picked
    /\ LET rem == Remaining(args.results)
       IN  Len(rem) >= 2 /\ TopScore(rem) - SecondScore(rem) < 10
    /\ ret.needs_prompt = TRUE

HasCountry(r) == contains(lower(r.display_name), lower(args.country_name))

HasRegion(r) ==
    \/ contains(lower(r.display_name), lower(args.region_name))
    \/ lower(args.region_name) = lower(r.name)

IsAdministrative(r) ==
    lower_sym(r.category) = "boundary" /\ lower_sym(r.type) = "administrative"

HasPuertoRico(r) == contains(lower(r.display_name), <<"puerto", "rico">>)

\* the list holds exactly two state-level candidates (and possibly
\* candidates that are not region-level), a with the country name in its
\* display name and b without
TwoStates(a, b) ==
    LET rem == Remaining(args.results)
    IN  /\ Len(rem) = 2
        /\ {rem[1], rem[2]} = {a, b}
        /\ lower_sym(a.addresstype) = "state" /\ lower_sym(b.addresstype) = "state"
        /\ HasCountry(a) /\ ~HasCountry(b)

RECURSIVE without_puerto_rico(_)
without_puerto_rico(d) ==
    IF ~contains(d, <<"puerto", "rico">>) THEN d
    ELSE LET k == CHOOSE k \in 0..(Len(d) - 2) :
                      /\ d[k + 1] = "puerto" /\ d[k + 2] = "rico"
                      /\ \A k2 \in 0..(k - 1) : ~(d[k2 + 1] = "puerto" /\ d[k2 + 2] = "rico")
         IN  without_puerto_rico(SubSeq(d, 1, k) \o SubSeq(d, k + 3, Len(d)))

\* the candidate scored, when its display name contains "puerto rico"
ScoredPuertoRico ==
    /\ pc = "done" /\ op = "score_place_result"
    /\ contains(lower(args.r.display_name), <<"puerto", "rico">>)

\* the otherwise-identical candidate: the same fields, the display name
\* without the phrase
Twin == [args.r EXCEPT !.display_name = without_puerto_rico(lower(args.r.display_name))]

\* C7 as stated: for every region name and country name the candidate with
\* "puerto rico" scores at least 30 below its otherwise-identical twin.
C7_Original ==
    ScoredPuertoRico =>
        ret <= score_place_result(args.region_name, args.desired_country, Twin) - 30

\* the region name (resp. country name) is found in the display name with
\* the phrase only if it is found in the display name without it
RegionMatchKept ==
    LET region_l == lower(args.region_name)
    IN  (contains(lower(args.r.display_name), region_l) \/ region_l = lower(args.r.name))
        => (contains(Twin.display_name, region_l) \/ region_l = lower(args.r.name))

CountryMatchKept ==
    contains(lower(args.r.display_name), lower(args.desired_country))
        => contains(Twin.display_name, lower(args.desired_country))

\* C7 (amended): the candidate with "puerto rico" scores at least 30 below
\* its otherwise-identical twin whenever the region name and the country
\* name that are found in its display name are also found in the twin's,
\* i.e. neither matches through the phrase itself.
C7_PuertoRicoPenalty ==
    (ScoredPuertoRico /\ RegionMatchKept /\ CountryMatchKept) =>
        ret <= score_place_result(args.region_name, args.desired_country, Twin) - 30

\* "Florida, Puerto Rico, USA" scored for Florida / USA, 30 below its twin
C7_Witness ==
    /\ ScoredPuertoRico
    /\ args.region_name = <<"Florida">> /\ args.desired_country = <<"USA">>
    /\ args.r.display_name = <<"Florida", "Puerto", "Rico", "USA">>
    /\ ret = score_place_result(args.region_name, args.desired_country, Twin) - 30

\* C8: if the list holds a region-level candidate, the returned candidate
\* is region-level.
C8_RegionLevelPreferred ==
    Picked =>
        ((\E i \in DOMAIN args.results : IsRegionLevel(args.results[i]))
         => IsRegionLevel(ret.place))

\* a region-level candidate is returned although a candidate that is not
\* region-level has a higher score
C8_Witness ==
    /\ Picked
    /\ IsRegionLevel(ret.place)
    /\ \E i \in DOMAIN args.results :
           /\ ~IsRegionLevel(args.results[i])
           /\ ScoreOf(args.results[i]) > ScoreOf(ret.place)

\* C9: if exactly one candidate remains after the pre-filter, it is
\* returned with needs_prompt = FALSE, whatever the scores.
C9_SingleRemaining ==
    Picked =>
        LET rem == Remaining(args.results)
        IN  Len(rem) = 1 => (ret.place = rem[1] /\ ret.needs_prompt = FALSE)

\* one state-level candidate next to a county-level one with the same
\* display name and a higher score
C9_Witness ==
    /\ Picked
    /\ Len(args.results) = 2
    /\ \E i, j \in DOMAIN args.results :
           /\ lower_sym(args.results[i].addresstype) = "state"
           /\ lower_sym(args.results[j].addresstype) = "county"
           /\ ScoreOf(args.results[j]) > ScoreOf(args.results[i])
           /\ ret.place = args.results[i]
    /\ ret.needs_prompt = FALSE

\* a one-element list
C9_WitnessSingleton ==
    /\ Picked
    /\ Len(args.results) = 1
    /\ ret.place = args.results[1] /\ ret.needs_prompt = FALSE

\* C10: when two or more candidates remain after the pre-filter, the
\* returned candidate has the highest score among them and is the first of
\* the list with that score.
C10_FirstOfTop ==
    Picked =>
        LET rem == Remaining(args.results)
        IN  Len(rem) >= 2 =>
                \E i \in DOMAIN rem :
                    /\ ret.place = rem[i]
                    /\ ScoreOf(rem[i]) = TopScore(rem)
                    /\ \A j \in 1..(i - 1) : ScoreOf(rem[j]) < TopScore(rem)

\* two different candidates share the highest score, behind a candidate of
\* lower score; the first of the two is returned
C10_Witness ==
    /\ Picked
    /\ LET rem == Remaining(args.results)
       IN  /\ Len(rem) = 3
           /\ ScoreOf(rem[1]) < ScoreOf(rem[2])
           /\ ScoreOf(rem[2]) = ScoreOf(rem[3])
           /\ rem[2] # rem[3]
           /\ ret.place = rem[2]

\* C11: pick_best_place fails with ValueError and returns no candidate on
\* an empty list; on a non-empty list it does not raise and returns an
\* element of the list.
C11_EmptyRaises ==
    (pc = "done" /\ op = "pick_best_place") =>
        /\ args.results = <<>> => (ret.raised = "ValueError" /\ ret.place = None)
        /\ args.results # <<>> =>
              (ret.raised = "" /\ ret.place \in SeqSet(args.results))

C11_Witness ==
    /\ pc = "done" /\ op = "pick_best_place"
    /\ args.results = <<>>
    /\ ret.raised = "ValueError"

\* a one-element list is answered with its element
C11_WitnessNonEmpty ==
    /\ pc = "done" /\ op = "pick_best_place"
    /\ Len(args.results) = 1
    /\ ret.raised = "" /\ ret.place = args.results[1]

\* C18: when the centre tile lies in 0..2^z-1 on both axes, every tile that
\* tiles_around returns lies in 0..2^z-1 on both axes.
C18_TilesExist ==
    (pc = "done" /\ op = "tiles_around") =>
        LET c == deg2num(args.lat, args.lon, args.z)
            n == Pow2(args.z)
        IN  (c[1] \in 0..(n - 1) /\ c[2] \in 0..(n - 1)) =>
                \A i \in DOMAIN ret :
                    ret[i].x \in 0..(n - 1) /\ ret[i].y \in 0..(n - 1)

(***************************************************************************)
(* bbox_from_nominatim.  The geocoder gives the box as a list of decimal   *)
(* strings [south, north, west, east]; float() turns a string into a       *)
(* number (millidegrees in the model).  place.get("boundingbox") is        *)
(* [some |-> TRUE, list |-> the list], or NoBBox (Python None) when the    *)
(* place has no such key.                                                  *)
(***************************************************************************)
NoBBox == [some |-> FALSE, list |-> <<>>]

SomeBBox(list) == [some |-> TRUE, list |-> list]

LatStrings == {"-33.869", "0.0", "25.0", "25.001", "26.0", "86.0"}
LonStrings == {"-181.0", "-180.0", "-80.0", "-79.999", "-79.0", "151.209"}

\* Python float() on the strings of the model
float_of(str) ==
    CASE str = "-33.869" -> -33869
      [] str = "0.0"     -> 0
      [] str = "25.0"    -> 25000
      [] str = "25.001"  -> 25001
      [] str = "26.0"    -> 26000
      [] str = "86.0"    -> 86000
      [] str = "-181.0"  -> -181000
      [] str = "-180.0"  -> -180000
      [] str = "-80.0"   -> -80000
      [] str = "-79.999" -> -79999
      [] str = "-79.0"   -> -79000
      [] str = "151.209" -> 151209

\* mutant: the list is read as [west, south, east, north]
bbox_reorder_wsen(bb) ==
    <<float_of(bb[1]), float_of(bb[2]), float_of(bb[3]), float_of(bb[4])>>

\* south, north, west, east = float(bb[0..3]); return west, south, east, north
bbox_reorder(bb) ==
    LET south == float_of(bb[1])
        north == float_of(bb[2])
        west  == float_of(bb[3])
        east  == float_of(bb[4])
    IN  <<west, south, east, north>>

\* mutant: a list of more than 4 entries is accepted
bbox_missing_short(bb) == ~bb.some \/ bb.list = <<>> \/ Len(bb.list) < 4

\* "if not bb or len(bb) != 4"
bbox_missing(bb) == ~bb.some \/ bb.list = <<>> \/ Len(bb.list) # 4

\* the result is [raised, box]; box is (west, south, east, north)
bbox_from_nominatim(place) ==
    LET bb == place.boundingbox
    IN  IF bbox_missing(bb)
        THEN [raised |-> "ValueError", box |-> None]
        ELSE [raised |-> "", box |-> bbox_reorder(bb.list)]

(***************************************************************************)
(* Specification of bbox_from_nominatim: one call on one place, and the    *)
(* zoom at which the wizard enumerates the box it returns.                 *)
(***************************************************************************)
\* boundingbox lists: latitudes in the first two places, longitudes in the
\* next two, as the geocoder orders them; shorter and longer lists too
BBoxLists ==
    {bb \in UNION {[1..n -> LatStrings \cup LonStrings] : n \in 0..MaxBBoxLen} :
        \A i \in DOMAIN bb :
            /\ i \in {1, 2} => bb[i] \in LatStrings
            /\ i \in {3, 4} => bb[i] \in LonStrings
            /\ i > 4 => bb[i] = "0.0"}

\* the box of the list bb is small enough at zoom z to be enumerated
BBoxListSmall(bb, z) ==
    Len(bb) = 4 =>
        BBoxSmall([z |-> z, west |-> float_of(bb[3]), south |-> float_of(bb[1]),
                   east |-> float_of(bb[4]), north |-> float_of(bb[2])])

BBoxPlaceArgs ==
    {a \in [place : [boundingbox : {SomeBBox(bb) : bb \in BBoxLists} \cup {NoBBox}],
             z : 0..MaxZoom] :
        BBoxListSmall(a.place.boundingbox.list, a.z)}

InitBBox ==
    /\ pc = "call"
    /\ op = "bbox_from_nominatim"
    /\ args \in BBoxPlaceArgs
    /\ ret = None
    /\ loc = None
    /\ env = None

BBoxFromNominatim ==
    /\ pc = "call" /\ op = "bbox_from_nominatim"
    /\ ret' = bbox_from_nominatim(args.place)
    /\ pc' = "done"
    /\ UNCHANGED <<op, args, loc, env>>

NextBBox == BBoxFromNominatim

SpecBBox == InitBBox /\ [][NextBBox]_vars

\* C14: bbox_from_nominatim raises and returns no box when boundingbox is
\* missing or has not exactly 4 entries; otherwise it returns
\* (west, south, east, north) read from [south, north, west, east], and the
\* tiles enumerated for the returned box are those between the place's
\* north-west and south-east corners.
C14_BBoxReordered ==
    (pc = "done" /\ op = "bbox_from_nominatim") =>
        LET bb == args.place.boundingbox.list
        IN  IF ~args.place.boundingbox.some \/ Len(bb) # 4
            THEN ret.raised = "ValueError" /\ ret.box = None
            ELSE /\ ret.raised = ""
                 /\ ret.box = <<float_of(bb[3]), float_of(bb[1]),
                                float_of(bb[4]), float_of(bb[2])>>
                 /\ LET nw == deg2num(float_of(bb[2]), float_of(bb[3]), args.z)
                        se == deg2num(float_of(bb[1]), float_of(bb[4]), args.z)
                    IN  SeqSet(tiles_for_bbox(args.z, ret.box[1], ret.box[2],
                                              ret.box[3], ret.box[4]))
                        = {Tile(args.z, x, y) :
                              x \in MinOf(nw[1], se[1])..MaxOf(nw[1], se[1]),
                              y \in MinOf(nw[2], se[2])..MaxOf(nw[2], se[2])}

\* Nominatim's box ["25.0", "26.0", "-80.0", "-79.0"] at zoom 10
C14_Witness ==
    /\ pc = "done" /\ op = "bbox_from_nominatim"
    /\ args.place.boundingbox = SomeBBox(<<"25.0", "26.0", "-80.0", "-79.0">>)
    /\ args.z = 10
    /\ ret.box = <<-80000, 25000, -79000, 26000>>

\* a box of three entries is refused
C14_WitnessShort ==
    /\ pc = "done" /\ op = "bbox_from_nominatim"
    /\ args.place.boundingbox.some
    /\ Len(args.place.boundingbox.list) = 3
    /\ ret.raised = "ValueError"

(***************************************************************************)
(* download_tile.  env.size is the size of out_png (-1: no such file),     *)
(* env.log the requests sent and the waits made, in order.  A wait of      *)
(* 0.7 * attempt seconds is recorded in tenths of a second.  One action    *)
(* per pass through the loop body; the answer of the server is chosen in   *)
(* the action:  session.get raises, or returns a status and a body.        *)
(***************************************************************************)
Statuses == {200, 403, 404, 429, 500, 502, 503, 504}

\* sizes of the body of a response, in bytes
BodySizes == {0, 100, 256, 300}

\* sizes of the file found on disk
FileSizes == {-1, 100, 256, 257, 5000}

\* mutant: 404 is retried as well
retriable_with_404(status) == status \in {404, 429, 500, 502, 503, 504}

\* "elif r.status_code in (429, 500, 502, 503, 504)"
retriable(status) == status \in {429, 500, 502, 503, 504}

GetEvent(attempt, status, body) ==
    [ev |-> "get", attempt |-> attempt, status |-> status, body |-> body, t |-> 0]

\* session.get raised: no status
GetRaised(attempt) == GetEvent(attempt, -1, 0)

SleepEvent(attempt) ==
    [ev |-> "sleep", attempt |-> attempt, status |-> 0, body |-> 0, t |-> 7 * attempt]

\* lines 138-145: the file is there and larger than 256 bytes: True without
\* a request; otherwise the loop starts with attempt = 1
DownloadTileEnter ==
    /\ pc = "call" /\ op = "download_tile"
    /\ IF env.size > 256
       THEN pc' = "done" /\ ret' = TRUE /\ loc' = loc
       ELSE IF args.retries >= 1
            THEN pc' = "get" /\ ret' = ret /\ loc' = [attempt |-> 1]
            ELSE pc' = "done" /\ ret' = FALSE /\ loc' = loc
    /\ UNCHANGED <<op, args, env>>

\* "except Exception": False on the last attempt, else wait and go on
AfterException(log, size) ==
    IF loc.attempt = args.retries
    THEN /\ pc' = "done" /\ ret' = FALSE /\ loc' = loc
         /\ env' = [size |-> size, log |-> log]
    ELSE /\ pc' = "get" /\ ret' = ret
         /\ loc' = [attempt |-> loc.attempt + 1]
         /\ env' = [size |-> size, log |-> Append(log, SleepEvent(loc.attempt))]

\* session.get raises (timeout, connection error)
DownloadTileGetRaises ==
    /\ pc = "get" /\ op = "download_tile"
    /\ AfterException(Append(env.log, GetRaised(loc.attempt)), env.size)
    /\ UNCHANGED <<op, args>>

\* status 200 with a body: the body is written; a file below 256 bytes is
\* removed and RuntimeError raised, caught by "except Exception"
DownloadTileGet200 ==
    /\ pc = "get" /\ op = "download_tile"
    /\ \E body \in BodySizes \ {0} :
         LET log == Append(env.log, GetEvent(loc.attempt, 200, body))
         IN  IF body < 256
             THEN AfterException(log, -1)
             ELSE /\ pc' = "done" /\ ret' = TRUE /\ loc' = loc
                  /\ env' = [size |-> body, log |-> log]
    /\ UNCHANGED <<op, args>>

\* a status of the retry list: wait, next pass; after the last pass the
\* loop ends and line 164 returns False
DownloadTileGetRetriable ==
    /\ pc = "get" /\ op = "download_tile"
    /\ \E status \in Statuses, body \in BodySizes :
         /\ ~(status = 200 /\ body > 0)
         /\ retriable(status)
         /\ env' = [size |-> env.size,
                    log  |-> env.log \o <<GetEvent(loc.attempt, status, body),
                                          SleepEvent(loc.attempt)>>]
         /\ IF loc.attempt = args.retries
            THEN pc' = "done" /\ ret' = FALSE /\ loc' = loc
            ELSE pc' = "get" /\ ret' = ret /\ loc' = [attempt |-> loc.attempt + 1]
    /\ UNCHANGED <<op, args>>

\* any other answer (also 200 with an empty body): False at once
DownloadTileGetOther ==
    /\ pc = "get" /\ op = "download_tile"
    /\ \E status \in Statuses, body \in BodySizes :
         /\ ~(status = 200 /\ body > 0)
         /\ ~retriable(status)
         /\ env' = [size |-> env.size,
                    log  |-> Append(env.log, GetEvent(loc.attempt, status, body))]
         /\ pc' = "done" /\ ret' = FALSE /\ loc' = loc
    /\ UNCHANGED <<op, args>>

DownloadTileArgs ==
    [t : {Tile(1, 0, 0), Tile(1, 1, 1)}, retries : {Retries}, size0 : FileSizes]

\* ret is a boolean all along: FALSE until the function returns
InitDownloadTile ==
    /\ pc = "call"
    /\ op = "download_tile"
    /\ args \in DownloadTileArgs
    /\ ret = FALSE
    /\ loc = None
    /\ env = [size |-> args.size0, log |-> <<>>]

NextDownloadTile ==
    \/ DownloadTileEnter
    \/ DownloadTileGetRaises
    \/ DownloadTileGet200
    \/ DownloadTileGetRetriable
    \/ DownloadTileGetOther

SpecDownloadTile == InitDownloadTile /\ [][NextDownloadTile]_vars

\* the code runs on: a step that can be taken is taken (session.get has a
\* timeout of 20 s, time.sleep returns)
SpecDownloadTileFair == SpecDownloadTile /\ WF_vars(NextDownloadTile)

\* positions of the requests in the log
Requests == {i \in DOMAIN env.log : env.log[i].ev = "get"}

RetryStatuses == {429, 500, 502, 503, 504}

\* the request e ended in an exception: session.get raised, or the body of
\* a 200 response was below 256 bytes (RuntimeError)
EndedInException(e) ==
    e.status = -1 \/ (e.status = 200 /\ e.body > 0 /\ e.body < 256)

\* a 200 response with an acceptable body
Accepted(e) == e.status = 200 /\ e.body >= 256

\* a status that is not retried
Refused(e) == ~EndedInException(e) /\ ~Accepted(e) /\ e.status \notin RetryStatuses

C15_Safe ==
    op = "download_tile" =>
        /\ Cardinality(Requests) <= 3
        /\ args.size0 > 256 => Requests = {}
        /\ \A i \in Requests :
              (Accepted(env.log[i]) \/ Refused(env.log[i]))
                  => /\ i = Len(env.log)
                     /\ pc = "done"
                     /\ ret = Accepted(env.log[i])
        /\ \A j \in Requests :
              j > 1 =>
                  /\ j > 2
                  /\ env.log[j - 1].ev = "sleep"
                  /\ env.log[j - 2].ev = "get"
                  /\ env.log[j - 1].t = 7 * env.log[j - 2].attempt
                  /\ env.log[j].attempt = env.log[j - 2].attempt + 1
                  /\ \/ env.log[j - 2].status \in RetryStatuses
                     \/ EndedInException(env.log[j - 2])

\* C15: download_tile terminates and sends at most 3 requests: none when the
\* file is there with more than 256 bytes, none after an accepted 200
\* response or a status that is not retried (False at once), a further one
\* only after 429/500/502/503/504 or an exception and a wait of
\* 0.7 * attempt seconds.
C15_DownloadTerminates == []C15_Safe /\ <>(pc = "done")

\* three requests, each answered 503 or by an exception, waits of 0.7 s and
\* 1.4 s between them, False returned
C15_Witness ==
    /\ pc = "done" /\ op = "download_tile"
    /\ Cardinality(Requests) = 3
    /\ \E i, j \in DOMAIN env.log :
           /\ env.log[i].ev = "sleep" /\ env.log[i].t = 7
           /\ env.log[j].ev = "sleep" /\ env.log[j].t = 14
    /\ ret = FALSE

\* the file is on disk already: no request
C15_WitnessSkip ==
    /\ pc = "done" /\ op = "download_tile"
    /\ args.size0 > 256 /\ env.log = <<>> /\ ret = TRUE

(***************************************************************************)
(* download_convert_tiles, and the same loop in run().  loc holds the      *)
(* counters and the index i of the next tile; env.events has one record    *)
(* per tile processed, env.png is the set of tiles whose PNG is on disk.   *)
(* download_tile and convert_png_to_bin are seen through the booleans      *)
(* they return (both catch the exceptions of their work), chosen in the    *)
(* action.                                                                 *)
(***************************************************************************)
TileEvent(t, downloaded, convert_attempted, converted, png_deleted) ==
    [tile |-> t, downloaded |-> downloaded, convert_attempted |-> convert_attempted,
     converted |-> converted, png_deleted |-> png_deleted]

\* mutant: a failed conversion is not counted
miss_after_download_only(miss, downloaded, converted) ==
    IF downloaded THEN miss ELSE miss + 1

\* miss += 1 in both else branches
miss_after(miss, downloaded, converted) ==
    IF downloaded /\ converted THEN miss ELSE miss + 1

\* lines 300-318
DownloadConvertEnter ==
    /\ pc = "call" /\ op = "download_convert_tiles"
    /\ loc' = [i |-> 1, ok_dl |-> 0, ok_conv |-> 0, miss |-> 0]
    /\ pc' = "loop"
    /\ UNCHANGED <<op, args, ret, env>>

\* one pass of "for t in tiles" with the outcome (downloaded, converted)
ProcessTile(downloaded, converted) ==
    LET t == args.tiles[loc.i]
        deleted == downloaded /\ converted /\ ~args.keep_png
    IN  /\ loc' = [i       |-> loc.i + 1,
                   ok_dl   |-> IF downloaded THEN loc.ok_dl + 1 ELSE loc.ok_dl,
                   ok_conv |-> IF downloaded /\ converted THEN loc.ok_conv + 1
                               ELSE loc.ok_conv,
                   miss    |-> miss_after(loc.miss, downloaded, converted)]
        /\ env' = [events |-> Append(env.events,
                                     TileEvent(t, downloaded, downloaded, converted, deleted)),
                   png    |-> IF deleted THEN env.png \ {t}
                              ELSE IF downloaded THEN env.png \cup {t}
                              ELSE env.png]

\* download_tile returns False
TileDownloadFails ==
    /\ pc = "loop" /\ op = "download_convert_tiles"
    /\ loc.i <= Len(args.tiles)
    /\ ProcessTile(FALSE, FALSE)
    /\ UNCHANGED <<pc, op, args, ret>>

\* download_tile returns True, convert_png_to_bin False
TileConvertFails ==
    /\ pc = "loop" /\ op = "download_convert_tiles"
    /\ loc.i <= Len(args.tiles)
    /\ ProcessTile(TRUE, FALSE)
    /\ UNCHANGED <<pc, op, args, ret>>

\* both return True; the PNG is removed unless keep_png
TileConverted ==
    /\ pc = "loop" /\ op = "download_convert_tiles"
    /\ loc.i <= Len(args.tiles)
    /\ ProcessTile(TRUE, TRUE)
    /\ UNCHANGED <<pc, op, args, ret>>

\* line 337
DownloadConvertReturn ==
    /\ pc = "loop" /\ op = "download_convert_tiles"
    /\ loc.i > Len(args.tiles)
    /\ ret' = <<loc.ok_dl, loc.ok_conv, loc.miss>>
    /\ pc' = "done"
    /\ UNCHANGED <<op, args, loc, env>>

DownloadConvertArgs ==
    [tiles : {[k \in 1..n |-> Tile(1, k - 1, 0)] : n \in 0..MaxBatch},
     keep_png : BOOLEAN]

InitDownloadConvert ==
    /\ pc = "call"
    /\ op = "download_convert_tiles"
    /\ args \in DownloadConvertArgs
    /\ ret = None
    /\ loc = None
    /\ env = [events |-> <<>>, png |-> {}]

NextDownloadConvert ==
    \/ DownloadConvertEnter
    \/ TileDownloadFails
    \/ TileConvertFails
    \/ TileConverted
    \/ DownloadConvertReturn

SpecDownloadConvert == InitDownloadConvert /\ [][NextDownloadConvert]_vars

\* number of tiles processed so far
Processed == Len(env.events)

\* C17: after each tile ok_conv + miss = tiles processed and
\* ok_conv <= ok_dl <= tiles processed; a conversion is attempted only after
\* a download that returned True, the PNG is deleted only after a
\* successful conversion with keep_png false; the tiles are processed in
\* order whatever fails, and the returned triple has
\* ok_conv + miss = len(tiles).
C17_Counters ==
    (op = "download_convert_tiles" /\ pc \in {"loop", "done"}) =>
        /\ loc.ok_conv + loc.miss = Processed
        /\ loc.ok_conv <= loc.ok_dl /\ loc.ok_dl <= Processed
        /\ loc.ok_dl = Cardinality({k \in DOMAIN env.events : env.events[k].downloaded})
        /\ \A k \in DOMAIN env.events :
              LET e == env.events[k]
              IN  /\ e.tile = args.tiles[k]
                  /\ e.convert_attempted => e.downloaded
                  /\ e.converted => e.convert_attempted
                  /\ e.png_deleted => (e.converted /\ ~args.keep_png)
        /\ pc = "done" =>
              /\ Processed = Len(args.tiles)
              /\ ret = <<loc.ok_dl, loc.ok_conv, loc.miss>>
              /\ ret[2] + ret[3] = Len(args.tiles)

\* a failed download, then a failed conversion, then a converted tile
C17_Witness ==
    /\ op = "download_convert_tiles" /\ pc = "done"
    /\ Len(args.tiles) = 3
    /\ ~env.events[1].downloaded
    /\ env.events[2].downloaded /\ ~env.events[2].converted
    /\ env.events[3].converted /\ env.events[3].png_deleted
    /\ ret = <<2, 1, 2>>

(***************************************************************************)
(* convert_zoom.py, main().  A source file is [parts, dst]: parts is        *)
(* len(rel.parts) (1: directly under the zoom directory, 2: x/y.png,       *)
(* 3: one directory deeper) and dst the .bin it maps to.  env.bin gives    *)
(* the size of every .bin on disk (-1: no such file), env.handled has one  *)
(* record per file that got past "len(rel.parts) < 2".  The exit status    *)
(* is ret: 0 on return, 2 for SystemExit(2), 1 for SystemExit(message).    *)
(***************************************************************************)
Dsts == {"1/1.bin", "1/2.bin"}

SourceFiles ==
    {[parts |-> 1, dst |-> ""]}
    \cup {[parts |-> 2, dst |-> d] : d \in Dsts}
    \cup {[parts |-> 3, dst |-> "1/2.bin"]}

\* bytes of one converted tile (.bin)
BinBytes == 131084

\* mutant: the status is 0 whatever failed
exit_status_zero(failed) == 0

\* "if failed: raise SystemExit(2)"
exit_status(failed) == IF failed # 0 THEN 2 ELSE 0

\* mutant: a .bin of exactly 1024 bytes counts as done
already_converted_1024(size) == size >= 1024

\* "dst.exists() and dst.stat().st_size > 1024"
already_converted(size) == size > 1024

Handled(i, how, size) == [file |-> i, how |-> how, size |-> size]

\* lines 36-47
ConvertZoomEnter ==
    /\ pc = "call" /\ op = "convert_zoom"
    /\ IF ~args.src_exists \/ args.files = <<>>
       THEN pc' = "done" /\ ret' = 1 /\ loc' = loc
       ELSE /\ pc' = "loop" /\ ret' = ret
            /\ loc' = [i |-> 1, converted |-> 0, skipped |-> 0, failed |-> 0]
    /\ UNCHANGED <<op, args, env>>

InLoop == pc = "loop" /\ op = "convert_zoom" /\ loc.i <= Len(args.files)

\* "if len(rel.parts) < 2: continue"
FileNotInXDir ==
    /\ InLoop
    /\ args.files[loc.i].parts < 2
    /\ loc' = [loc EXCEPT !.i = @ + 1]
    /\ UNCHANGED <<pc, op, args, ret, env>>

\* the .bin is there: skipped += 1
FileSkipped ==
    /\ InLoop
    /\ args.files[loc.i].parts >= 2
    /\ already_converted(env.bin[args.files[loc.i].dst])
    /\ loc' = [loc EXCEPT !.i = @ + 1, !.skipped = @ + 1]
    /\ env' = [env EXCEPT !.handled =
                  Append(@, Handled(loc.i, "skipped", env.bin[args.files[loc.i].dst]))]
    /\ UNCHANGED <<pc, op, args, ret>>

\* --dry-run: converted += 1 without running the converter
FileDryRun ==
    /\ InLoop
    /\ args.files[loc.i].parts >= 2
    /\ ~already_converted(env.bin[args.files[loc.i].dst])
    /\ args.dry_run
    /\ loc' = [loc EXCEPT !.i = @ + 1, !.converted = @ + 1]
    /\ env' = [env EXCEPT !.handled =
                  Append(@, Handled(loc.i, "dry", env.bin[args.files[loc.i].dst]))]
    /\ UNCHANGED <<pc, op, args, ret>>

\* check_call returns: converted += 1
FileConverted ==
    /\ InLoop
    /\ args.files[loc.i].parts >= 2
    /\ ~already_converted(env.bin[args.files[loc.i].dst])
    /\ ~args.dry_run
    /\ loc' = [loc EXCEPT !.i = @ + 1, !.converted = @ + 1]
    /\ env' = [bin     |-> [env.bin EXCEPT ![args.files[loc.i].dst] = BinBytes],
               handled |-> Append(env.handled,
                                  Handled(loc.i, "converted", env.bin[args.files[loc.i].dst]))]
    /\ UNCHANGED <<pc, op, args, ret>>

\* check_call raises CalledProcessError: failed += 1
FileFailed ==
    /\ InLoop
    /\ args.files[loc.i].parts >= 2
    /\ ~already_converted(env.bin[args.files[loc.i].dst])
    /\ ~args.dry_run
    /\ loc' = [loc EXCEPT !.i = @ + 1, !.failed = @ + 1]
    /\ env' = [env EXCEPT !.handled =
                  Append(@, Handled(loc.i, "failed", env.bin[args.files[loc.i].dst]))]
    /\ UNCHANGED <<pc, op, args, ret>>

\* lines 76-78
ConvertZoomExit ==
    /\ pc = "loop" /\ op = "convert_zoom"
    /\ loc.i > Len(args.files)
    /\ ret' = exit_status(loc.failed)
    /\ pc' = "done"
    /\ UNCHANGED <<op, args, loc, env>>

\* sorted(rglob): different paths; only a file one directory deeper can map
\* to the .bin of another file
ConvertZoomArgs ==
    {a \in [files : UNION {[1..n -> SourceFiles] : n \in 0..MaxFiles},
            src_exists : BOOLEAN, dry_run : BOOLEAN,
            bin0 : [Dsts -> {-1, 1024, 2000}]] :
        /\ \A i, j \in DOMAIN a.files :
              (i # j /\ a.files[i].parts = 2 /\ a.files[j].parts = 2)
                  => a.files[i].dst # a.files[j].dst
        /\ ~a.src_exists => a.files = <<>>}

InitConvertZoom ==
    /\ pc = "call"
    /\ op = "convert_zoom"
    /\ args \in ConvertZoomArgs
    /\ ret = None
    /\ loc = None
    /\ env = [bin |-> args.bin0, handled |-> <<>>]

NextConvertZoom ==
    \/ ConvertZoomEnter
    \/ FileNotInXDir
    \/ FileSkipped
    \/ FileDryRun
    \/ FileConverted
    \/ FileFailed
    \/ ConvertZoomExit

SpecConvertZoom == InitConvertZoom /\ [][NextConvertZoom]_vars

\* the files with an x directory among the first n source files
InXDir(n) == {i \in 1..n : args.files[i].parts >= 2}

\* C16: every source file with an x directory is handled exactly once, in
\* order, whatever failed before; converted + skipped + failed is their
\* number; a file whose .bin is there with more than 1024 bytes is skipped
\* and not converted; the exit status is 2 exactly when failed > 0.
C16_ContinuesAfterFailure ==
    op = "convert_zoom" =>
        /\ pc = "loop" =>
              /\ {env.handled[k].file : k \in DOMAIN env.handled} = InXDir(loc.i - 1)
              /\ \A k, m \in DOMAIN env.handled :
                    k < m => env.handled[k].file < env.handled[m].file
              /\ loc.converted + loc.skipped + loc.failed = Cardinality(InXDir(loc.i - 1))
              /\ \A k \in DOMAIN env.handled :
                    (env.handled[k].size > 1024) <=> (env.handled[k].how = "skipped")
              /\ loc.skipped =
                    Cardinality({k \in DOMAIN env.handled : env.handled[k].how = "skipped"})
              /\ loc.failed =
                    Cardinality({k \in DOMAIN env.handled : env.handled[k].how = "failed"})
        /\ (pc = "done" /\ ret # 1) =>
              /\ Len(env.handled) = Cardinality(InXDir(Len(args.files)))
              /\ loc.converted + loc.skipped + loc.failed
                    = Cardinality(InXDir(Len(args.files)))
              /\ (ret = 2) <=> (loc.failed > 0)
        /\ (pc = "done" /\ ret = 1) => (loc = None /\ env.handled = <<>>)

\* the first conversion fails, the following file is converted all the
\* same, and the exit status is 2
C16_Witness ==
    /\ op = "convert_zoom" /\ pc = "done"
    /\ Len(env.handled) >= 2
    /\ env.handled[1].how = "failed"
    /\ env.handled[2].how = "converted"
    /\ ret = 2

\* a .bin of more than 1024 bytes is skipped
C16_WitnessSkipped ==
    /\ op = "convert_zoom" /\ pc = "done"
    /\ \E k \in DOMAIN env.handled : env.handled[k].how = "skipped"
    /\ ret = 0

(***************************************************************************)
(* wizard().  args holds the command-line options, env the outside world   *)
(* (how the tile server answers) and what reached it: env.calls lists the  *)
(* zooms tiles_for_bbox was called with, env.batches the tile lists handed *)
(* to download_convert_tiles, env.processed the tiles it went through.     *)
(* loc holds the locals; min_z and max_z start as the options and are      *)
(* assigned by the zoom selection, as in the code.  An Optional[int] is    *)
(* NoInt or SomeInt(v), an Optional[str] that is None is NoStr.  The       *)
(* answers typed at the prompts and the geocoder's reply are chosen in     *)
(* the action that asks.  ret is [raised, msg]; raised = "" on return.     *)
(***************************************************************************)
NoInt == [some |-> FALSE, v |-> 0]

SomeInt(v) == [some |-> TRUE, v |-> v]

NoStr == "<None>"

Returned == [raised |-> "", msg |-> ""]

BadParameter(msg) == [raised |-> "BadParameter", msg |-> msg]

\* the "custom" preset has zmin = zmax = None
zoom_presets(zm) ==
    CASE zm = "recommended" -> [zmin |-> SomeInt(6), zmax |-> SomeInt(13)]
      [] zm = "fast"        -> [zmin |-> SomeInt(6), zmax |-> SomeInt(11)]
      [] zm = "detailed"    -> [zmin |-> SomeInt(6), zmax |-> SomeInt(15)]
      [] zm = "custom"      -> [zmin |-> NoInt, zmax |-> NoInt]

PresetKeys == {"recommended", "fast", "detailed", "custom"}

menu == <<"recommended", "fast", "detailed", "custom">>

\* zoom_mode.lower().strip() on the option values of the model
lower_strip(zoom_mode) ==
    CASE zoom_mode = "Fast " -> "fast"
      [] OTHER -> zoom_mode

\* typer.Option(None, min=0, max=19): the option parser refuses other values
option_in_range(o) == ~o.some \/ (0 <= o.v /\ o.v <= MaxZoom)

\* mutant: min_z > max_z is let through
zoom_range_invalid_unordered(min_z, max_z) == min_z < 0 \/ max_z > MaxZoom

\* "if min_z < 0 or max_z > 19 or min_z > max_z"
zoom_range_invalid(min_z, max_z) == min_z < 0 \/ max_z > MaxZoom \/ min_z > max_z

\* mutant: the download loop stops one zoom short
download_zooms_short(min_z, max_z) == range(min_z, max_z)

\* "for z in range(min_z, max_z + 1)" of the download phase
download_zooms(min_z, max_z) == range(min_z, max_z + 1)

\* tiles_by_zoom[z] = tz
dict_set(d, k, v) == [j \in DOMAIN d \cup {k} |-> IF j = k THEN v ELSE d[j]]

style_keys == <<"osm", "carto-light", "carto-dark">>

\* the places the geocoder may list: a state with a small box, a town with
\* a one-point box, and a state without boundingbox
WizardPlaces ==
    {[display_name |-> <<"Florida", "USA">>, name |-> <<"Florida">>,
      addresstype |-> "state", category |-> "boundary", type |-> "administrative",
      boundingbox |-> SomeBBox(<<"25.0", "25.001", "-80.0", "-79.999">>)],
     [display_name |-> <<"Florida", "Puerto", "Rico", "USA">>, name |-> <<"Florida">>,
      addresstype |-> "", category |-> "place", type |-> "city",
      boundingbox |-> SomeBBox(<<"0.0", "0.0", "-180.0", "-180.0">>)],
     [display_name |-> <<"Florida">>, name |-> <<"Florida">>,
      addresstype |-> "", category |-> "place", type |-> "city",
      boundingbox |-> NoBBox]}

\* geocode_places raises, or returns a list of at most two places
GeocodeReplies ==
    {[raised |-> TRUE, results |-> <<>>]}
    \cup {[raised |-> FALSE, results |-> r] :
            r \in UNION {[1..n -> WizardPlaces] : n \in 0..2}}

\* the integers typed at the custom zoom prompts
PromptInts == {-1, 0, 2, 3, 19, 20}

\* the tile server: answers every tile, none, or those of even x
Servers == {"up", "down", "even_x"}

download_ok(server, t) == server = "up" \/ (server = "even_x" /\ t.x % 2 = 0)

\* the triple download_convert_tiles returns (conversions succeed here)
download_convert_tiles(tiles, server) ==
    LET dl == Cardinality({k \in DOMAIN tiles : download_ok(server, tiles[k])})
    IN  <<dl, dl, Len(tiles) - dl>>

WizardArgs ==
    [country : {"us", "xx"}, region : {"Florida", "Atlantis"},
     zoom_mode : {NoStr, "recommended", "Fast ", "detailed", "custom", "best"},
     zflags : {<<NoInt, NoInt>>, <<SomeInt(2), SomeInt(3)>>, <<SomeInt(3), SomeInt(2)>>,
               <<SomeInt(3), NoInt>>, <<SomeInt(-1), SomeInt(3)>>,
               <<SomeInt(2), SomeInt(20)>>},
     style : {NoStr, "osm", "mapnik"},
     yes : BOOLEAN]

InitWizard ==
    /\ pc = "call"
    /\ op = "wizard"
    /\ args \in WizardArgs
    /\ ret = None
    /\ loc = None
    /\ \E server \in Servers :
          env = [server |-> server, calls |-> <<>>, batches |-> <<>>, processed |-> <<>>]

Finish(r) == pc' = "done" /\ ret' = r

\* option parsing and lines 439-506: country and region from the flags
WizardEnter ==
    /\ pc = "call" /\ op = "wizard"
    /\ loc' = [country_name |-> <<"USA">>, region_name |-> <<"Florida">>,
               results |-> <<>>, place |-> None, box |-> <<>>,
               min_z |-> args.zflags[1], max_z |-> args.zflags[2],
               style |-> args.style, tiles_by_zoom |-> <<>>, total_tiles |-> 0,
               approx_mb |-> [num |-> 0, den |-> 1], z |-> 0,
               grand_dl |-> 0, grand_conv |-> 0, grand_fail |-> 0]
    /\ IF ~option_in_range(args.zflags[1]) \/ ~option_in_range(args.zflags[2])
       THEN Finish(BadParameter("not in the range 0<=x<=19"))
       ELSE IF args.country # "us"
       THEN Finish(BadParameter("--country must be one of: us, ca, mx"))
       ELSE IF args.region # "Florida"
       THEN Finish(BadParameter("Unknown region"))
       ELSE pc' = "geocode" /\ ret' = ret
    /\ UNCHANGED <<op, args, env>>

\* lines 513-518
WizardGeocode ==
    /\ pc = "geocode" /\ op = "wizard"
    /\ \E reply \in GeocodeReplies :
          /\ loc' = [loc EXCEPT !.results = reply.results]
          /\ IF reply.raised THEN Finish(BadParameter("Geocoding failed"))
             ELSE IF reply.results = <<>> THEN Finish(BadParameter("Could not locate"))
             ELSE pc' = "pick" /\ ret' = ret
    /\ UNCHANGED <<op, args, env>>

\* "west, south, east, north = bbox_from_nominatim(place)"
UseBBox(place) ==
    LET b == bbox_from_nominatim(place)
    IN  IF b.raised # ""
        THEN /\ loc' = [loc EXCEPT !.place = place]
             /\ Finish([raised |-> b.raised, msg |-> "Place has no boundingbox"])
        ELSE /\ loc' = [loc EXCEPT !.place = place, !.box = b.box]
             /\ pc' = "zoom" /\ ret' = ret

\* lines 521-531, needs_prompt false
WizardAutoPick ==
    /\ pc = "pick" /\ op = "wizard"
    /\ LET p == pick_best_place(loc.region_name, loc.country_name, loc.results)
       IN  /\ ~p.needs_prompt
           /\ UseBBox(p.place)
    /\ UNCHANGED <<op, args, env>>

\* lines 521-531, needs_prompt true: the user picks from results
WizardPromptPick ==
    /\ pc = "pick" /\ op = "wizard"
    /\ pick_best_place(loc.region_name, loc.country_name, loc.results).needs_prompt
    /\ \E pick \in 1..Len(loc.results) : UseBBox(loc.results[pick])
    /\ UNCHANGED <<op, args, env>>

\* lines 544-567, a preset of the menu
WizardZoomMenuPreset ==
    /\ pc = "zoom" /\ op = "wizard"
    /\ args.zoom_mode = NoStr
    /\ \E zidx \in 1..Len(menu) :
          LET preset == zoom_presets(menu[zidx])
          IN  /\ preset.zmin.some
              /\ loc' = [loc EXCEPT !.min_z = preset.zmin, !.max_z = preset.zmax]
    /\ pc' = "validate"
    /\ UNCHANGED <<op, args, ret, env>>

\* lines 544-567, "Custom": both bounds are typed in
WizardZoomMenuCustom ==
    /\ pc = "zoom" /\ op = "wizard"
    /\ args.zoom_mode = NoStr
    /\ \E zidx \in 1..Len(menu) :
          /\ ~zoom_presets(menu[zidx]).zmin.some
          /\ \E a, b \in PromptInts :
                loc' = [loc EXCEPT !.min_z = SomeInt(a), !.max_z = SomeInt(b)]
    /\ pc' = "validate"
    /\ UNCHANGED <<op, args, ret, env>>

\* lines 568-577
WizardZoomFlags ==
    /\ pc = "zoom" /\ op = "wizard"
    /\ args.zoom_mode # NoStr
    /\ LET zm == lower_strip(args.zoom_mode)
       IN  IF zm \notin PresetKeys
           THEN /\ Finish(BadParameter("--zoom-mode must be one of: recommended, fast, detailed, custom"))
                /\ loc' = loc
           ELSE IF ~zoom_presets(zm).zmin.some
           THEN IF ~loc.min_z.some \/ ~loc.max_z.some
                THEN /\ Finish(BadParameter("For --zoom-mode custom you must provide --min-z and --max-z"))
                     /\ loc' = loc
                ELSE pc' = "validate" /\ ret' = ret /\ loc' = loc
           ELSE /\ loc' = [loc EXCEPT !.min_z = zoom_presets(zm).zmin,
                                      !.max_z = zoom_presets(zm).zmax]
                /\ pc' = "validate" /\ ret' = ret
    /\ UNCHANGED <<op, args, env>>

\* lines 579-580
WizardValidateZoom ==
    /\ pc = "validate" /\ op = "wizard"
    /\ IF zoom_range_invalid(loc.min_z.v, loc.max_z.v)
       THEN Finish(BadParameter("Zoom range must be within 0..19 and min<=max"))
       ELSE pc' = "style" /\ ret' = ret
    /\ UNCHANGED <<op, args, loc, env>>

\* lines 583-597, style from the menu
WizardStyleMenu ==
    /\ pc = "style" /\ op = "wizard"
    /\ loc.style = NoStr
    /\ \E sidx \in 1..Len(style_keys) :
          loc' = [loc EXCEPT !.style = style_keys[sidx], !.z = loc.min_z.v]
    /\ pc' = "plan"
    /\ UNCHANGED <<op, args, ret, env>>

\* lines 583-597, style from the flag
WizardStyleFlag ==
    /\ pc = "style" /\ op = "wizard"
    /\ loc.style # NoStr
    /\ IF loc.style \notin {style_keys[k] : k \in DOMAIN style_keys}
       THEN Finish(BadParameter("Unknown style")) /\ loc' = loc
       ELSE pc' = "plan" /\ ret' = ret /\ loc' = [loc EXCEPT !.z = loc.min_z.v]
    /\ UNCHANGED <<op, args, env>>

\* one pass of the loop of lines 599-602
WizardPlanZoom ==
    /\ pc = "plan" /\ op = "wizard"
    /\ loc.z < loc.max_z.v + 1
    /\ LET tz == tiles_for_bbox(loc.z, loc.box[1], loc.box[2], loc.box[3], loc.box[4])
       IN  loc' = [loc EXCEPT !.tiles_by_zoom = dict_set(@, loc.z, tz),
                              !.total_tiles = @ + Len(tz),
                              !.z = @ + 1]
    /\ env' = [env EXCEPT !.calls = Append(@, loc.z)]
    /\ UNCHANGED <<pc, op, args, ret>>

\* lines 604-617; the division by 2^20 is kept as a fraction
Estimate ==
    [loc EXCEPT !.approx_mb = [num |-> loc.total_tiles * BinBytes, den |-> 1024 * 1024],
                !.z = 1]

\* --yes, or "y" at the prompt
WizardConfirmed ==
    /\ pc = "plan" /\ op = "wizard"
    /\ loc.z >= loc.max_z.v + 1
    /\ loc' = Estimate
    /\ pc' = "download"
    /\ UNCHANGED <<op, args, ret, env>>

\* "n" at the prompt: typer.Exit(0)
WizardDeclined ==
    /\ pc = "plan" /\ op = "wizard"
    /\ loc.z >= loc.max_z.v + 1
    /\ ~args.yes
    /\ loc' = Estimate
    /\ Finish([raised |-> "Exit", msg |-> "0"])
    /\ UNCHANGED <<op, args, env>>

\* one pass of the loop of lines 621-632; z is the index into the range
WizardDownloadZoom ==
    /\ pc = "download" /\ op = "wizard"
    /\ loc.z <= Len(download_zooms(loc.min_z.v, loc.max_z.v))
    /\ LET z     == download_zooms(loc.min_z.v, loc.max_z.v)[loc.z]
           tiles == loc.tiles_by_zoom[z]
           r     == download_convert_tiles(tiles, env.server)
       IN  /\ loc' = [loc EXCEPT !.z = @ + 1,
                                 !.grand_dl = @ + r[1],
                                 !.grand_conv = @ + r[2],
                                 !.grand_fail = @ + r[3]]
           /\ env' = [env EXCEPT !.batches = Append(@, [z |-> z, tiles |-> tiles]),
                                 !.processed = @ \o tiles]
    /\ UNCHANGED <<pc, op, args, ret>>

\* lines 634-635
WizardDone ==
    /\ pc = "download" /\ op = "wizard"
    /\ loc.z > Len(download_zooms(loc.min_z.v, loc.max_z.v))
    /\ Finish(Returned)
    /\ UNCHANGED <<op, args, loc, env>>

NextWizard ==
    \/ WizardEnter
    \/ WizardGeocode
    \/ WizardAutoPick
    \/ WizardPromptPick
    \/ WizardZoomMenuPreset
    \/ WizardZoomMenuCustom
    \/ WizardZoomFlags
    \/ WizardValidateZoom
    \/ WizardStyleMenu
    \/ WizardStyleFlag
    \/ WizardPlanZoom
    \/ WizardConfirmed
    \/ WizardDeclined
    \/ WizardDownloadZoom
    \/ WizardDone

SpecWizard == InitWizard /\ [][NextWizard]_vars

\* the range in min_z, max_z is an accepted one
ZoomRangeOk ==
    /\ loc.min_z.some /\ loc.max_z.some
    /\ 0 <= loc.min_z.v /\ loc.min_z.v <= loc.max_z.v /\ loc.max_z.v <= MaxZoom

\* C12: however the zoom range is chosen (preset, --min-z/--max-z, custom
\* prompts), a range with min_zoom > max_zoom or with a bound outside 0..19
\* is rejected with an error before tiles_for_bbox is called for any zoom
\* and before any tile is downloaded.
C12_InvalidZoomRejected ==
    (op = "wizard" /\ pc # "call") =>
        /\ pc \in {"style", "plan", "download"} => ZoomRangeOk
        /\ (env.calls # <<>> \/ env.batches # <<>> \/ env.processed # <<>>) => ZoomRangeOk
        /\ (pc = "done" /\ ~ZoomRangeOk) =>
              /\ ret.raised \notin {"", "Exit"}
              /\ loc.box # <<>> => ret.raised = "BadParameter"
              /\ env.calls = <<>> /\ env.batches = <<>> /\ env.processed = <<>>

\* min > max typed at the custom prompts is rejected
C12_Witness ==
    /\ op = "wizard" /\ pc = "done"
    /\ args.zoom_mode = NoStr
    /\ loc.min_z.some /\ loc.max_z.some
    /\ loc.min_z.v = 3 /\ loc.max_z.v = 2
    /\ ret = BadParameter("Zoom range must be within 0..19 and min<=max")

\* --zoom-mode custom --min-z 3 --max-z 2 is rejected
C12_WitnessFlags ==
    /\ op = "wizard" /\ pc = "done"
    /\ args.zoom_mode = "custom"
    /\ loc.box # <<>>
    /\ loc.min_z = SomeInt(3) /\ loc.max_z = SomeInt(2)
    /\ ret = BadParameter("Zoom range must be within 0..19 and min<=max")

\* a bound above 19 typed at the custom prompts is rejected
C12_WitnessAbove ==
    /\ op = "wizard" /\ pc = "done"
    /\ loc.min_z = SomeInt(2) /\ loc.max_z = SomeInt(20)
    /\ loc.box # <<>>
    /\ ret = BadParameter("Zoom range must be within 0..19 and min<=max")

\* a preset is accepted and planned
C12_WitnessPreset ==
    /\ op = "wizard" /\ pc = "plan"
    /\ loc.min_z = SomeInt(6) /\ loc.max_z = SomeInt(11)
    /\ env.calls # <<>>

RECURSIVE SumLens(_, _, _)
SumLens(d, a, b) == IF a > b THEN 0 ELSE Len(d[a]) + SumLens(d, a + 1, b)

RECURSIVE Concat(_, _, _)
Concat(d, a, b) == IF a > b THEN <<>> ELSE d[a] \o Concat(d, a + 1, b)

\* tiles_by_zoom holds the lists of the zooms min_z..last and no other
PlanIs(last) ==
    /\ DOMAIN loc.tiles_by_zoom = loc.min_z.v .. last
    /\ \A z \in loc.min_z.v .. last :
          loc.tiles_by_zoom[z] =
              tiles_for_bbox(z, loc.box[1], loc.box[2], loc.box[3], loc.box[4])
    /\ loc.total_tiles = SumLens(loc.tiles_by_zoom, loc.min_z.v, last)
    /\ loc.box = bbox_from_nominatim(loc.place).box

\* the download phase has gone through the first n zooms of the plan
DownloadedIs(n) ==
    /\ env.batches = [k \in 1..n |-> [z     |-> loc.min_z.v + k - 1,
                                     tiles |-> loc.tiles_by_zoom[loc.min_z.v + k - 1]]]
    /\ env.processed = Concat(loc.tiles_by_zoom, loc.min_z.v, loc.min_z.v + n - 1)

\* C13: for an accepted range the plan holds one tile list for every zoom
\* of min_z..max_z and for no other, each equal to tiles_for_bbox at that
\* zoom for the chosen bounding box; total_tiles is the sum of their
\* lengths, the estimate is total_tiles * 131084 bytes, and the download
\* phase processes the planned tiles, zoom by zoom in ascending order.
C13_PlanAndDownload ==
    op = "wizard" =>
        /\ pc = "plan" => (PlanIs(loc.z - 1) /\ loc.z <= loc.max_z.v + 1 /\ DownloadedIs(0))
        /\ (pc = "download" \/ (pc = "done" /\ ret.raised \in {"", "Exit"})) =>
              /\ PlanIs(loc.max_z.v)
              /\ loc.approx_mb.num = loc.total_tiles * BinBytes
              /\ loc.approx_mb.den = 1024 * 1024
        /\ pc = "download" => DownloadedIs(loc.z - 1)
        /\ (pc = "done" /\ ret.raised = "Exit") => DownloadedIs(0)
        /\ (pc = "done" /\ ret.raised = "") =>
              DownloadedIs(loc.max_z.v - loc.min_z.v + 1)

\* a run over several zooms, one of them with more than one tile, with
\* downloads that failed on the way
C13_Witness ==
    /\ op = "wizard" /\ pc = "done" /\ ret.raised = ""
    /\ loc.min_z.v < loc.max_z.v
    /\ \E z \in DOMAIN loc.tiles_by_zoom : Len(loc.tiles_by_zoom[z]) > 1
    /\ loc.grand_fail > 0 /\ loc.grand_dl > 0
    /\ Len(env.processed) = loc.total_tiles

\* the user declines after the estimate
C13_WitnessDeclined ==
    /\ op = "wizard" /\ pc = "done" /\ ret.raised = "Exit"
    /\ loc.total_tiles > 0

====
